---- MODULE Spec2Model ----
(***************************************************************************)
(* Quadrotor with inverted pendulum: the dynamics model                    *)
(* (QuadrotorPendulum), the zero-order-hold controller                     *)
(* (QuadrotorController) and the simulation run (RunSimulation) of         *)
(* quadrotor_pendulum.py.                                                  *)
(*                                                                         *)
(* Numbers.  Reals are modelled by integers and exact rationals.  Masses,  *)
(* lengths, thrusts and velocities are small integers; the two angles      *)
(* q[2], q[3] are counted in quarter turns, where sin and cos are exactly  *)
(* -1, 0 or 1.  The rotational inertias mb*lb^2/3 and m1*l1^2/3 are kept   *)
(* as three times their value, and the mass matrix is kept as 3*M, so that *)
(* the solve M*qdd = rhs stays in the integers until the final division,   *)
(* whose result is an exact fraction <<numerator, denominator>>.           *)
(* Time is counted in integer units; the control period is a whole number  *)
(* of units, so that a duration need not be a multiple of the period.      *)
(***************************************************************************)
EXTENDS Integers, Sequences, FiniteSets

(***************************************************************************)
(* Bounds of the model.                                                    *)
(***************************************************************************)
MaxU == 3
MaxPeriod == 2
MaxDuration == 3
MaxQueries == 1

(***************************************************************************)
(* Small arithmetic helpers.                                               *)
(***************************************************************************)
Abs(v) == IF v < 0 THEN -v ELSE v

Min2(a, b) == IF b < a THEN b ELSE a

Max2(a, b) == IF b > a THEN b ELSE a

\* F applied to the value of e, with e evaluated once.
With(e, F(_)) == CHOOSE r \in {F(v) : v \in {e}} : TRUE

RECURSIVE Gcd(_, _)
Gcd(a, b) == IF b = 0 THEN a ELSE With(a % b, LAMBDA r : Gcd(b, r))

\* The exact fraction n/d (d # 0) in lowest terms with a positive denominator.
Frac(n, d) ==
    With(<<n, d>>, LAMBDA f :
        With(Gcd(Abs(f[1]), Abs(f[2])), LAMBDA g :
            IF f[2] < 0 THEN <<(-f[1]) \div g, (-f[2]) \div g>>
            ELSE <<f[1] \div g, f[2] \div g>>))

\* math.sin and math.cos of k quarter turns.
SinQ(k) == <<0, 1, 0, -1>>[(k % 4) + 1]

CosQ(k) == <<1, 0, -1, 0>>[(k % 4) + 1]

Dot2(a, b) == a[1] * b[1] + a[2] * b[2]

Dot4(a, b) == a[1] * b[1] + a[2] * b[2] + a[3] * b[3] + a[4] * b[4]

\* The row without its j-th entry.
DropEntry(row, j) == SubSeq(row, 1, j - 1) \o SubSeq(row, j + 1, Len(row))

Det2(A) == A[1][1] * A[2][2] - A[1][2] * A[2][1]

\* Determinants by expansion along the first row.
Det3(A3) ==
    With(A3, LAMBDA A :
        A[1][1] * Det2(<<DropEntry(A[2], 1), DropEntry(A[3], 1)>>)
        - A[1][2] * Det2(<<DropEntry(A[2], 2), DropEntry(A[3], 2)>>)
        + A[1][3] * Det2(<<DropEntry(A[2], 3), DropEntry(A[3], 3)>>))

Det(A4) ==
    With(A4, LAMBDA A :
        LET Minor(j) == <<DropEntry(A[2], j), DropEntry(A[3], j), DropEntry(A[4], j)>>
        IN  A[1][1] * Det3(Minor(1)) - A[1][2] * Det3(Minor(2))
            + A[1][3] * Det3(Minor(3)) - A[1][4] * Det3(Minor(4)))

\* The 4x4 matrix A with column j replaced by the vector v.
ReplaceCol(A, j, v) ==
    << [A[1] EXCEPT ![j] = v[1]], [A[2] EXCEPT ![j] = v[2]],
       [A[3] EXCEPT ![j] = v[3]], [A[4] EXCEPT ![j] = v[4]] >>

(***************************************************************************)
(* QuadrotorPendulum.__init__: stores the six parameters as given and      *)
(* derives the two inertias.  It has no failing path.                      *)
(***************************************************************************)
QuadrotorPendulum(mb, lb, m1, l1, g, input_max) ==
    [mb |-> mb, lb |-> lb, m1 |-> m1, l1 |-> l1, g |-> g,
     input_max |-> input_max,
     Ib3 |-> mb * lb * lb,
     I13 |-> m1 * l1 * l1]

(***************************************************************************)
(* GetManipulatorDynamics: (M, C, tauG, B) at q, qd; M is returned as 3*M. *)
(* Indices are the source's plus one.                                      *)
(***************************************************************************)
GetManipulatorDynamics(self, q, qd) ==
    LET c3 == CosQ(q[4])
        s3 == SinQ(q[4])
        c2 == CosQ(q[3])
        s2 == SinQ(q[3])
    IN  [M3 |-> << <<3 * (self.mb + self.m1), 0, 0, 3 * self.m1 * self.l1 * c3>>,
                   <<0, 3 * (self.mb + self.m1), 0, 3 * self.m1 * self.l1 * s3>>,
                   <<0, 0, self.Ib3, 0>>,
                   <<3 * self.m1 * self.l1 * c3, 3 * self.m1 * self.l1 * s3, 0,
                     self.I13 + 3 * self.m1 * self.l1 * self.l1>> >>,
         C |-> << <<0, 0, 0, -self.m1 * self.l1 * s3 * qd[4]>>,
                  <<0, 0, 0, self.m1 * self.l1 * c3 * qd[4]>>,
                  <<0, 0, 0, 0>>,
                  <<0, 0, 0, 0>> >>,
         tauG |-> <<0, -(self.m1 + self.mb) * self.g, 0,
                    -self.m1 * self.l1 * self.g * s3>>,
         B |-> << <<-s2, -s2>>, <<c2, c2>>, <<-self.lb, self.lb>>, <<0, 0>> >>]

(***************************************************************************)
(* evaluate_f.  The two input-bound statements, in the source's order,     *)
(* then the solve.  The result records what the caller can observe: the    *)
(* exception raised (or "none"), the caller's array u after the call (the  *)
(* source assigns u[0], u[1] in place), the u that entered np.dot(B, u),   *)
(* and the returned vector.                                                *)
(***************************************************************************)
\* A bound that only limits from above.
Saturate_UpperOnly(input_max, v) == Min2(input_max, v)

\* max(-input_max, min(input_max, v))
Saturate(input_max, v) == Max2(-input_max, Min2(input_max, v))

NoVector == <<>>

\* Both components clamped first, the limits tested afterwards on the
\* caller's values.
BoundInputs_ClampThenTest(self, u, throw_when_limits_exceeded) ==
    LET c == <<Saturate(self.input_max, u[1]), Saturate(self.input_max, u[2])>>
    IN  IF throw_when_limits_exceeded
           /\ (Abs(u[1]) > self.input_max \/ Abs(u[2]) > self.input_max)
        THEN [err |-> "ValueError", u |-> c]
        ELSE [err |-> "none", u |-> c]

\* Lines 83-92: for each component in turn, raise in the strict mode when it
\* is out of range, else clamp it in place.
BoundInputs(self, u, throw_when_limits_exceeded) ==
    IF throw_when_limits_exceeded /\ Abs(u[1]) > self.input_max
    THEN [err |-> "ValueError", u |-> u]
    ELSE
      LET u1 == [u EXCEPT ![1] = Saturate(self.input_max, u[1])]
      IN  IF throw_when_limits_exceeded /\ Abs(u1[2]) > self.input_max
          THEN [err |-> "ValueError", u |-> u1]
          ELSE [err |-> "none",
                u |-> [u1 EXCEPT ![2] = Saturate(self.input_max, u1[2])]]

\* Lines 94-104: qdd = inv(M) (tauG + B u - C qd), and hstack([qd, qdd]).
\* np.linalg.inv(M) is the first argument of the outer np.dot: it is
\* evaluated, and raises on a singular M, before np.dot(B, u) is.
ManipulatorEquation(self, u, x) ==
    LET q  == SubSeq(x, 1, 4)
        qd == SubSeq(x, 5, 8)
    IN  With(GetManipulatorDynamics(self, q, qd), LAMBDA D :
          LET \* 3 * (tauG[:, 0] + np.dot(B, u) - np.dot(C, qd))
              Rhs3(i) == 3 * (D.tauG[i] + Dot2(D.B[i], u) - Dot4(D.C[i], qd))
          IN  With(<<Rhs3(1), Rhs3(2), Rhs3(3), Rhs3(4)>>, LAMBDA rhs3 :
              With(Det(D.M3), LAMBDA det :
                LET \* row i of inv(M) times the right-hand side (Cramer's rule)
                    Qdd(i) == Frac(Det(ReplaceCol(D.M3, i, rhs3)), det)
                IN  IF det = 0
                    THEN [err |-> "LinAlgError", used |-> NoVector, xdot |-> NoVector]
                    ELSE [err |-> "none", used |-> u,
                          xdot |-> <<Frac(qd[1], 1), Frac(qd[2], 1),
                                     Frac(qd[3], 1), Frac(qd[4], 1),
                                     Qdd(1), Qdd(2), Qdd(3), Qdd(4)>>])))

evaluate_f(self, u, x, throw_when_limits_exceeded) ==
    With(BoundInputs(self, u, throw_when_limits_exceeded), LAMBDA b :
      IF b.err # "none"
      THEN [err |-> b.err, u |-> b.u, used |-> NoVector, xdot |-> NoVector]
      ELSE With(ManipulatorEquation(self, b.u, x), LAMBDA m :
             [err |-> m.err, u |-> b.u, used |-> m.used, xdot |-> m.xdot]))

\* The derivative evaluated in the strict mode.
DoCalcVectorTimeDerivatives_Strict(self, u, x) == evaluate_f(self, u, x, TRUE)

\* _DoCalcVectorTimeDerivatives: always the clamping mode.
DoCalcVectorTimeDerivatives(self, u, x) == evaluate_f(self, u, x, FALSE)

(***************************************************************************)
(* QuadrotorController.                                                    *)
(***************************************************************************)
\* DeclareDiscreteState(2): the held register starts at zero.
DeclareDiscreteState == <<0, 0>>

\* __init__: last_print_time = -print_period.
InitialLastPrintTime(print_period) == -print_period

\* DoCalcDiscreteVariableUpdates: new_control_input[:] = feedback_rule(x, t).
\* The policy's return value new_u is the caller's choice.
DoCalcDiscreteVariableUpdates(discrete_state, new_u) == new_u

\* An output that is blank whenever the print bookkeeping fires.
DoCalcVectorOutput_BlankOnPrint(discrete_state, print_period, lpt, t) ==
    [y |-> IF print_period # 0 /\ t - lpt >= print_period
           THEN <<0, 0>> ELSE discrete_state,
     last_print_time |-> IF print_period # 0 /\ t - lpt >= print_period
                         THEN t ELSE lpt]

\* DoCalcVectorOutput at context time t: y[:] = control_output, and the
\* print bookkeeping.
DoCalcVectorOutput(discrete_state, print_period, lpt, t) ==
    [y |-> discrete_state,
     last_print_time |-> IF print_period # 0 /\ t - lpt >= print_period
                         THEN t ELSE lpt]

(***************************************************************************)
(* Inputs of the model.                                                    *)
(***************************************************************************)
\* Continuous states <<xb, yb, thetab, theta1, and their rates>>.
StateSet == { <<0, 0, 0, 0, 0, 0, 0, 0>>,
              <<0, 1, 0, 1, 0, 0, 0, 1>>,
              <<1, 0, 1, 2, 1, 0, -1, 2>> }

\* Arguments mb, lb, m1, l1, g, input_max of the constructor: one physical
\* set, and sets with a zero length, a zero mass and a negative mass.
ArgSet == { <<1, 1, 2, 1, 10, 2>>,
            <<1, 0, 2, 1, 10, 2>>,
            <<2, 1, -1, 1, 10, 2>> }

Construct(a) == QuadrotorPendulum(a[1], a[2], a[3], a[4], a[5], a[6])

\* Values a feedback policy returns: one within [-2, 2] and one outside it
\* in both components.
CmdSet == { <<1, -2>>, <<MaxU, -MaxU>> }

\* The states a run is started from and the states an integration step ends in.
RunStateSet == {s \in StateSet : s[1] = 0}

PeriodSet == 1..MaxPeriod

DurationSet == 0..MaxDuration

PrintPeriodSet == {0, 2}

USet == (-MaxU)..MaxU

VARIABLES
    pc,               \* position in RunSimulation
    quadrotor_plant,  \* the model the caller passes in
    x0,               \* the initial state the caller passes in
    duration, control_period, print_period,
    plant,            \* <<>> or <<the copy RunSimulation builds>>
    time,             \* context time
    x,                \* continuous state
    discrete_state,   \* the controller's held register
    last_print_time,
    y,                \* the controller output port's last value, <<>> if none
    input_log, state_log,
    err,              \* exception leaving RunSimulation, "none" if none
    trace,            \* history: ticks and integration steps, in order
    tick_u,           \* history: the policy's return at the latest tick
    queries,          \* history: Output evaluations since the latest tick
    eval,             \* history: <<>> or <<the latest dynamics evaluation>>
    call, ret, ret_clamped   \* a direct call of evaluate_f and its results

runvars == <<pc, quadrotor_plant, x0, duration, control_period, print_period,
             plant, time, x, discrete_state, last_print_time, y, input_log,
             state_log, err, trace, tick_u, queries, eval>>

fvars == <<call, ret, ret_clamped>>

vars == <<runvars, fvars>>

NoCall == [self |-> Construct(<<1, 1, 2, 1, 10, 2>>), u |-> <<0, 0>>,
           x |-> <<0, 0, 0, 0, 0, 0, 0, 0>>, strict |-> FALSE]

(***************************************************************************)
(* RunSimulation.                                                          *)
(***************************************************************************)
Init ==
    /\ pc = "build"
    /\ quadrotor_plant \in {Construct(a) : a \in ArgSet}
    /\ x0 \in RunStateSet
    /\ duration \in DurationSet
    /\ control_period \in PeriodSet
    /\ print_period \in PrintPeriodSet
    /\ plant = <<>>
    /\ time = 0
    /\ x = x0
    /\ discrete_state = DeclareDiscreteState
    /\ last_print_time = InitialLastPrintTime(print_period)
    /\ y = <<>>
    /\ input_log = <<>>
    /\ state_log = <<>>
    /\ err = "none"
    /\ trace = <<>>
    /\ tick_u = <<>>
    /\ queries = 0
    /\ eval = <<>>
    /\ call = NoCall /\ ret = <<>> /\ ret_clamped = <<>>

\* Lines 224-261: the controller, the copy of the plant, the loggers, x0.
Build ==
    /\ pc = "build"
    /\ plant' = << QuadrotorPendulum(quadrotor_plant.mb, quadrotor_plant.lb,
                                     quadrotor_plant.m1, quadrotor_plant.l1,
                                     quadrotor_plant.g, quadrotor_plant.input_max) >>
    /\ pc' = "initialize"
    /\ UNCHANGED <<quadrotor_plant, x0, duration, control_period, print_period,
                   time, x, discrete_state, last_print_time, y, input_log,
                   state_log, err, trace, tick_u, queries, eval>>
    /\ UNCHANGED fvars

\* A logger that keeps only its latest sample.
LogSample_KeepLatest(log, t, v) == << <<t, v>> >>

\* A SignalLogger's publish: the sample <<time, input>> goes to the end.
LogSample(log, t, v) == Append(log, <<t, v>>)

\* One publish of both loggers at context time t; the command logger's input
\* is the controller output, the state logger's the plant output (y[:] = x).
Publish(t) ==
    LET o == DoCalcVectorOutput(discrete_state, print_period, last_print_time, t)
    IN  /\ input_log' = LogSample(input_log, t, o.y)
        /\ state_log' = LogSample(state_log, t, x)
        /\ y' = o.y
        /\ last_print_time' = o.last_print_time
        /\ queries' = Min2(queries + 1, MaxQueries + 1)

\* simulator.Initialize(): the publish at the initial time.
Initialize ==
    /\ pc = "initialize"
    /\ Publish(time)
    /\ pc' = "update"
    /\ UNCHANGED <<quadrotor_plant, x0, duration, control_period, print_period,
                   plant, time, x, discrete_state, err, trace, tick_u, eval>>
    /\ UNCHANGED fvars

\* Periodic events that are first due one period after the start.
PeriodicEventDue_AfterStart(t, period) == t % period = 0 /\ t > 0

\* DeclarePeriodicDiscreteUpdate(period_sec=control_period), offset 0, and
\* _DeclarePeriodicPublish(control_period, 0.0): due at multiples of the period.
PeriodicEventDue(t, period) == t % period = 0

\* The time of the next periodic event after t.
NextEventTime(t, period) == ((t \div period) + 1) * period

\* Top of a simulator step: the periodic discrete update, if due.
DiscreteUpdate ==
    /\ pc = "update"
    /\ IF PeriodicEventDue(time, control_period)
       THEN \E new_u \in CmdSet :
              /\ discrete_state' = DoCalcDiscreteVariableUpdates(discrete_state, new_u)
              /\ tick_u' = new_u
              /\ queries' = 0
              /\ trace' = Append(trace, [kind |-> "tick", t |-> time, h |-> 0,
                                         x |-> x, u |-> new_u])
       ELSE UNCHANGED <<discrete_state, tick_u, queries, trace>>
    /\ pc' = "periodic_publish"
    /\ UNCHANGED <<quadrotor_plant, x0, duration, control_period, print_period,
                   plant, time, x, last_print_time, y, input_log, state_log,
                   err, eval>>
    /\ UNCHANGED fvars

\* The loggers' periodic publish, if due.
PeriodicPublish ==
    /\ pc = "periodic_publish"
    /\ IF PeriodicEventDue(time, control_period)
       THEN Publish(time)
       ELSE UNCHANGED <<input_log, state_log, y, last_print_time, queries>>
    /\ pc' = "integrate"
    /\ UNCHANGED <<quadrotor_plant, x0, duration, control_period, print_period,
                   plant, time, x, discrete_state, err, trace, tick_u, eval>>
    /\ UNCHANGED fvars

\* A maximum step left at one time unit.
MaximumStepSize_Unit(period) == 1

\* set_maximum_step_size(control_period), fixed step mode; RunSimulation's
\* simulation_period argument is never read.
MaximumStepSize(period) == period

\* A step that is not cut at the end of the run.
StepSize_PastBoundary(t, boundary, period) ==
    Min2(MaximumStepSize(period), NextEventTime(t, period) - t)

\* The step the integrator takes from t: to the next periodic event or to the
\* end of the run, whichever is first, and no longer than the maximum step.
StepSize(t, boundary, period) ==
    Min2(MaximumStepSize(period),
         Min2(NextEventTime(t, period), boundary) - t)

\* StepTo leaves its loop once the context time has reached the boundary.
BoundaryReached(t, boundary) == t >= boundary

\* An exception that is swallowed.
AfterEvaluation_Swallowed(e) == "step_publish"

\* After a dynamics evaluation that raised: the exception leaves StepTo and
\* RunSimulation (no handler in either).
AfterEvaluation(e) == IF e = "none" THEN "step_publish" ELSE "error"

\* One integration step: the plant's input is the controller output, the
\* derivative is _DoCalcVectorTimeDerivatives; the integrator's new state is
\* any state (its arithmetic is the library's).  A step of length zero may or
\* may not evaluate the derivative.
Integrate ==
    /\ pc = "integrate"
    /\ \E h \in {StepSize(time, duration, control_period)},
          o \in {DoCalcVectorOutput(discrete_state, print_period, last_print_time, time)} :
       \E r \in {DoCalcVectorTimeDerivatives(plant[1], o.y, x)},
          evaluated \in (IF h = 0 THEN BOOLEAN ELSE {TRUE}) :
             IF evaluated
             THEN /\ y' = o.y
                  /\ last_print_time' = o.last_print_time
                  /\ queries' = Min2(queries + 1, MaxQueries + 1)
                  /\ eval' = << [t |-> time, x |-> x, u |-> o.y, used |-> r.used,
                                 err |-> r.err, nin |-> Len(input_log),
                                 nst |-> Len(state_log), ntrace |-> Len(trace)] >>
                  /\ err' = r.err
                  /\ pc' = AfterEvaluation(r.err)
                  /\ IF AfterEvaluation(r.err) = "error"
                     THEN UNCHANGED <<x, time, trace>>
                     ELSE /\ x' \in RunStateSet
                          /\ time' = time + h
                          /\ trace' = Append(trace, [kind |-> "step", t |-> time,
                                                     h |-> h, x |-> x', u |-> o.y])
             ELSE /\ pc' = "step_publish"
                  /\ trace' = Append(trace, [kind |-> "step", t |-> time,
                                             h |-> h, x |-> x, u |-> discrete_state])
                  /\ UNCHANGED <<y, last_print_time, queries, eval, err, x, time>>
    /\ UNCHANGED <<quadrotor_plant, x0, duration, control_period, print_period,
                   plant, discrete_state, input_log, state_log, tick_u>>
    /\ UNCHANGED fvars

\* set_publish_every_time_step(True): the publish after every step; then the
\* loop's exit test.
StepPublish ==
    /\ pc = "step_publish"
    /\ Publish(time)
    /\ pc' = IF BoundaryReached(time, duration) THEN "done" ELSE "update"
    /\ UNCHANGED <<quadrotor_plant, x0, duration, control_period, print_period,
                   plant, time, x, discrete_state, err, trace, tick_u, eval>>
    /\ UNCHANGED fvars

\* Any other evaluation of the controller's output port during the run, at a
\* context time qt (integrator stages evaluate it at times inside the step).
Output ==
    /\ pc \in {"update", "periodic_publish", "integrate", "step_publish"}
    /\ queries < MaxQueries
    /\ \E qt \in {time, time + 1} :
         LET o == DoCalcVectorOutput(discrete_state, print_period, last_print_time, qt)
         IN  /\ y' = o.y
             /\ last_print_time' = o.last_print_time
    /\ queries' = queries + 1
    /\ UNCHANGED <<pc, quadrotor_plant, x0, duration, control_period, print_period,
                   plant, time, x, discrete_state, input_log, state_log, err,
                   trace, tick_u, eval>>
    /\ UNCHANGED fvars

Next ==
    \/ Build
    \/ Initialize
    \/ DiscreteUpdate
    \/ PeriodicPublish
    \/ Integrate
    \/ StepPublish
    \/ Output

Spec == Init /\ [][Next]_vars

\* The run is one sequential program: it keeps taking its next step.
FairSpec == Spec /\ WF_vars(Next)

(***************************************************************************)
(* evaluate_f called directly: any model, command, state and mode.         *)
(***************************************************************************)
\* Each component of u limited independently to [-input_max, input_max].
Clamp(input_max, u) ==
    LET Limit(v) == IF v > input_max THEN input_max
                    ELSE IF v < -input_max THEN -input_max ELSE v
    IN  <<Limit(u[1]), Limit(u[2])>>

FunctionArgSet == { <<1, 1, 2, 1, 10, 2>>, <<1, 1, 2, 1, 10, 1>>, <<1, 0, 2, 1, 10, 2>> }

RunIdle ==
    /\ pc = "idle"
    /\ quadrotor_plant = NoCall.self
    /\ x0 = NoCall.x
    /\ duration = 0 /\ control_period = 1 /\ print_period = 0
    /\ plant = <<>>
    /\ time = 0
    /\ x = NoCall.x
    /\ discrete_state = DeclareDiscreteState
    /\ last_print_time = 0
    /\ y = <<>>
    /\ input_log = <<>> /\ state_log = <<>>
    /\ err = "none"
    /\ trace = <<>> /\ tick_u = <<>> /\ queries = 0 /\ eval = <<>>

InitF ==
    /\ RunIdle
    /\ call \in [self : {Construct(a) : a \in FunctionArgSet},
                 u : USet \X USet,
                 x : StateSet,
                 strict : BOOLEAN]
    /\ ret = <<>>
    /\ ret_clamped = <<>>

\* evaluate_f(u, x, strict) on the caller's command.
Evaluate ==
    /\ ret = <<>>
    /\ ret' = << evaluate_f(call.self, call.u, call.x, call.strict) >>
    /\ UNCHANGED <<call, ret_clamped>>
    /\ UNCHANGED runvars

\* evaluate_f(clamp(u), x) in the clamping mode.
EvaluateClamped ==
    /\ ~call.strict
    /\ ret_clamped = <<>>
    /\ ret_clamped' = << evaluate_f(call.self, Clamp(call.self.input_max, call.u),
                                    call.x, FALSE) >>
    /\ UNCHANGED <<call, ret>>
    /\ UNCHANGED runvars

NextF ==
    \/ Evaluate
    \/ EvaluateClamped

SpecF == InitF /\ [][NextF]_vars

(***************************************************************************)
(* Properties.                                                             *)
(***************************************************************************)
Ticks == {i \in 1..Len(trace) : trace[i].kind = "tick"}

Steps == {i \in 1..Len(trace) : trace[i].kind = "step"}

\* C1: once the controller has ticked, every evaluation of its output made
\* before the next tick returns the command stored by that tick, at whatever
\* time and however often it is evaluated; and the held register changes only
\* in the discrete update.
C1_ZeroOrderHold ==
    /\ [](tick_u # <<>> /\ queries > 0 => y = tick_u)
    /\ [][discrete_state' # discrete_state => pc = "update" /\ pc' = "periodic_publish"]_vars

C1_Witness ==
    /\ Cardinality(Ticks) >= 2
    /\ queries > MaxQueries
    /\ y = tick_u
    /\ last_print_time > 0

\* C2: ticks and integration steps alternate, starting with a tick at time
\* 0; the k-th tick is at k control periods (one tick per boundary, at every
\* boundary before the end of the run); a step that is followed by a tick has
\* the length of the control period.
C2_TicksAndStepsAlternate ==
    /\ \A i \in 1..Len(trace) :
         trace[i].kind = (IF i % 2 = 1 THEN "tick" ELSE "step")
    /\ \A i \in Ticks : trace[i].t = ((i - 1) \div 2) * control_period
    /\ \A i \in Steps :
         i < Len(trace) => /\ trace[i].h = control_period
                           /\ trace[i + 1].t = trace[i].t + control_period
    /\ pc = "done" =>
         \A k \in 0..duration :
           k * control_period < duration =>
             Cardinality({i \in Ticks : trace[i].t = k * control_period}) = 1

C2_Witness ==
    /\ pc = "done"
    /\ control_period = 2
    /\ Cardinality(Ticks) = 2
    /\ Cardinality(Steps) = 2

\* C3: in strict mode a command with a component outside
\* [-input_max, input_max] makes evaluate_f raise the input-range error,
\* return nothing and leave the caller's command as it was.
C3_StrictRaisesAndLeavesInput ==
    (/\ ret # <<>>
     /\ call.strict
     /\ \E i \in 1..2 : Abs(call.u[i]) > call.self.input_max)
    => /\ ret[1].err = "ValueError"
       /\ ret[1].xdot = NoVector
       /\ ret[1].u = call.u

C3_Witness ==
    /\ ret # <<>>
    /\ call.strict
    /\ Abs(call.u[1]) <= call.self.input_max
    /\ call.u[1] # 0
    /\ Abs(call.u[2]) > call.self.input_max
    /\ ret[1].err = "ValueError"

\* C4: in the clamping mode evaluate_f(u, x) returns what
\* evaluate_f(clamp(u), x) returns.
C4_ClampedEquivalent ==
    (ret # <<>> /\ ret_clamped # <<>> /\ ~call.strict)
    => /\ ret[1].err = ret_clamped[1].err
       /\ ret[1].xdot = ret_clamped[1].xdot

C4_Witness ==
    /\ ret # <<>> /\ ret_clamped # <<>>
    /\ ~call.strict
    /\ call.u = <<MaxU, -MaxU>>
    /\ call.self.input_max < MaxU
    /\ ret[1].err = "none"
    /\ ret[1].xdot = ret_clamped[1].xdot

\* C5: a dynamics evaluation that fails ends the run at once: the state, the
\* time, the logs and the history are as they were at the failing evaluation,
\* and the run ends with the error, not with a return of the logs.
C5_ErrorAborts ==
    /\ (eval # <<>> /\ eval[1].err # "none") =>
         /\ pc = "error"
         /\ err = eval[1].err
         /\ x = eval[1].x
         /\ time = eval[1].t
         /\ Len(input_log) = eval[1].nin
         /\ Len(state_log) = eval[1].nst
         /\ Len(trace) = eval[1].ntrace
    /\ pc = "error" <=> err # "none"
    /\ pc = "done" => err = "none"

C5_Witness ==
    /\ pc = "error"
    /\ err = "LinAlgError"
    /\ time = 0
    /\ duration > 0

\* C6: every model that exists has strictly positive masses and lengths.
C6_PositiveParameters ==
    \A m \in {quadrotor_plant} \cup {plant[i] : i \in 1..Len(plant)} :
        m.mb > 0 /\ m.lb > 0 /\ m.m1 > 0 /\ m.l1 > 0

\* C7 as stated: in each log the first sample is at time 0 and every later
\* sample has a time strictly greater than the one before it.
C7_StrictlyIncreasingTimes ==
    \A log \in {input_log, state_log} :
        /\ Len(log) > 0 => log[1][1] = 0
        /\ \A i \in 1..(Len(log) - 1) : log[i][1] < log[i + 1][1]

\* C7 amended: each log is append-only, its first sample is at time 0 and
\* its sample times never decrease.
C7_AppendOnlyNonDecreasing ==
    /\ [](\A log \in {input_log, state_log} :
            /\ Len(log) > 0 => log[1][1] = 0
            /\ \A i \in 1..(Len(log) - 1) : log[i][1] <= log[i + 1][1])
    /\ [][/\ Len(input_log') >= Len(input_log)
          /\ SubSeq(input_log', 1, Len(input_log)) = input_log
          /\ Len(state_log') >= Len(state_log)
          /\ SubSeq(state_log', 1, Len(state_log)) = state_log]_vars

C7_Witness ==
    /\ pc = "done"
    /\ Len(state_log) >= 4
    /\ \E i \in 1..(Len(state_log) - 1) :
         state_log[i][1] = state_log[i + 1][1] /\ state_log[i][1] > 0
    /\ state_log[Len(state_log)][1] = duration

\* C8: a run whose dynamics evaluations succeed ends, and a run that has
\* ended normally is at the requested duration.
C8_TerminatesAtDuration ==
    /\ <>(pc = "done" \/ err # "none")
    /\ [](pc = "done" => time = duration)

C8_Witness ==
    /\ pc = "done"
    /\ time = duration
    /\ duration % control_period # 0
    /\ duration > control_period

\* C9: every integration step is preceded by the tick at its start time; the
\* policy was called there with the state as it was then (x0, or the state
\* the previous step produced); and the command the dynamics is given is the
\* one that tick stored.
C9_TickBeforeStep ==
    /\ \A i \in Steps :
         /\ i > 1
         /\ trace[i - 1].kind = "tick"
         /\ trace[i - 1].t = trace[i].t
         /\ trace[i].u = trace[i - 1].u
    /\ \A i \in Ticks :
         trace[i].x = (IF i = 1 THEN x0 ELSE trace[i - 1].x)
    /\ \A i \in Ticks : i > 1 => trace[i - 1].kind = "step"
    /\ (eval # <<>> /\ pc \in {"step_publish", "error"}) => eval[1].u = tick_u

C9_Witness ==
    /\ Cardinality(Steps) >= 2
    /\ eval # <<>>
    /\ eval[1].t > 0
    /\ eval[1].u # DeclareDiscreteState
    /\ \E i \in Ticks : i > 1 /\ trace[i].x # x0

\* C10: in every dynamics evaluation of a run the thrusts that enter the
\* acceleration are within [-input_max, input_max], and no evaluation raises
\* the input-range error.
C10_ThrustWithinLimits ==
    eval # <<>> =>
        /\ eval[1].err # "ValueError"
        /\ eval[1].used # NoVector =>
             \A i \in 1..2 : /\ eval[1].used[i] <= plant[1].input_max
                             /\ eval[1].used[i] >= -plant[1].input_max

C10_Witness ==
    /\ eval # <<>>
    /\ eval[1].err = "none"
    /\ Abs(eval[1].u[1]) > plant[1].input_max
    /\ Abs(eval[1].u[2]) > plant[1].input_max
    /\ eval[1].used = <<plant[1].input_max, -plant[1].input_max>>
    /\ pc = "step_publish"

====
